---- MODULE Spec2Model ----
(***************************************************************************)
(* Model of the AK8963 magnetometer driver (src/src/lib.rs).               *)
(*                                                                         *)
(* The driver is a sequential program; every bus operation (open, write,   *)
(* read) is one step of it, so that the order of the operations, their     *)
(* failures and the chip's own activity between two of them are visible.   *)
(* The chip on the other end of the bus is the environment: its registers  *)
(* hold arbitrary bytes at the start, and while it is in a continuous      *)
(* measurement mode it produces measurements on its own.                   *)
(*                                                                         *)
(* Numbers.  f32 values are kept exactly, as integers in a fixed unit:     *)
(*   factory_adjust  in units of 1/256         (1.0 is 256)                *)
(*   scalar()        in units of MEAS_RANGE/32768                          *)
(*   mag             in units of MEAS_RANGE/(32768*256) uT                 *)
(***************************************************************************)
EXTENDS Integers, Sequences, FiniteSets, TLC

VARIABLES
    pc,             \* position of the driver
    overflow_checks,\* build profile: TRUE debug (u8 underflow panics), FALSE release (wraps)
    args,           \* arguments of Ak8963::new
    ak,             \* the Ak8963 struct: where it lives, factory_adjust, sensitivity
    fa_buf,         \* buf of read_sensitivity_adjustment
    factory_adjust, \* local factory_adjust of read_sensitivity_adjustment / new
    buf1,           \* buf1 of read_sample (status byte)
    buf,            \* buf of read_sample (data block)
    data_arg,       \* data of parse_sample_data
    log,            \* bus operations attempted by the current call, in order
    lastCall,       \* the public function called last
    prevCall,       \* the public function called before that one
    result,         \* what the last call returned
    chip,           \* the chip's registers
    hist            \* history: the first parse_sample_data call on the controller,
                    \* whether read_sample was called since, and the chip's ST1
                    \* at the data read of the last read_sample

vars == <<pc, overflow_checks, args, ak, fa_buf, factory_adjust, buf1, buf, data_arg,
          log, lastCall, prevCall, result, chip, hist>>

----------------------------------------------------------------------------
(* Register map and control codes *)

St1 == 2
Hxl == 3
Cntl1 == 10
Asax == 16

PowerDn == 0
ContMeas1 == 2
ContMeas2 == 6
FuseRom == 15
Sensitivity16bit == 16

SampleRate == {"Opt8Hz", "Opt100Hz"}
Sensitivity == {"Opt14bit", "Opt16bit"}

(* u8 bit operations *)
Bit(b, k) == (b \div (2 ^ k)) % 2

BitAnd(a, b) ==
    LET F[k \in 0 .. 8] ==
            IF k = 8 THEN 0
            ELSE (IF Bit(a, k) = 1 /\ Bit(b, k) = 1 THEN 2 ^ k ELSE 0) + F[k + 1]
    IN F[0]

BitOr(a, b) ==
    LET F[k \in 0 .. 8] ==
            IF k = 8 THEN 0
            ELSE (IF Bit(a, k) = 1 \/ Bit(b, k) = 1 THEN 2 ^ k ELSE 0) + F[k + 1]
    IN F[0]


\* Cntl1Byte with the sensitivity arms exchanged
Cntl1Byte_SensitivityInverted(sensitivity, sample_rate) ==
    (IF sensitivity = "Opt14bit" THEN Sensitivity16bit ELSE 0)
        + (IF sample_rate = "Opt8Hz" THEN ContMeas1 ELSE ContMeas2)

(* RegCntl1 byte built by initialize: cntl1_byte = 0 | sensitivity | rate *)
Cntl1Byte(sensitivity, sample_rate) ==
    LET b0 == 0
        b1 == IF sensitivity = "Opt16bit" THEN BitOr(b0, Sensitivity16bit) ELSE b0
        b2 == IF sample_rate = "Opt8Hz" THEN BitOr(b1, ContMeas1)
                                         ELSE BitOr(b1, ContMeas2)
    IN b2

\* Scalar with the divisors of the two modes exchanged
Scalar_Exchanged(sensitivity) ==
    32768 \div (IF sensitivity = "Opt14bit" THEN 32768 ELSE 8192)

(* Sensitivity::scalar, MEAS_RANGE / 8192 or MEAS_RANGE / 32768, in units of
   MEAS_RANGE / 32768 *)
ScalarUnit == 32768

Scalar(sensitivity) ==
    ScalarUnit \div (IF sensitivity = "Opt14bit" THEN 8192 ELSE 32768)

(* buf[i] - 128 on u8: an underflow panics with overflow checks (debug and
   test profiles) and wraps modulo 256 without them (release) *)
SubU8(a, b) ==
    IF a >= b THEN [panic |-> FALSE, val |-> a - b]
    ELSE IF overflow_checks THEN [panic |-> TRUE, val |-> 0]
    ELSE [panic |-> FALSE, val |-> (a - b) % 256]

(* ((buf[i] - 128) as f32)/256.0 + 1.0, in units of 1/256 *)
AdjustOf(b) == SubU8(b, 128).val + 256

AdjustPanics(bytes) == \E i \in 1 .. 3 : SubU8(bytes[i], 128).panic

FactoryAdjustOf(bytes) == [i \in 1 .. 3 |-> AdjustOf(bytes[i])]


\* ReadI16 without the sign: read_u16
ReadI16_Unsigned(lo, hi) == lo + 256 * hi

(* LittleEndian::read_i16 of two bytes *)
ReadI16(lo, hi) ==
    LET u == lo + 256 * hi
    IN IF u >= 32768 THEN u - 65536 ELSE u


\* DataReady testing the whole status byte instead of bit 0
DataReady_NonZero(status) == status # 0

(* the status and ST2 bit tests *)
DataReady(status) == BitAnd(status, 1) # 0


\* DataOverrun testing bit 0 instead of bit 1
DataOverrun_Bit0(status) == BitAnd(status, 1) # 0

DataOverrun(status) == BitAnd(status, 2) # 0


\* Saturated comparing ST2 with the mask instead of testing the bit
Saturated_Equals(data) == data[7] = 8

Saturated(data) == BitAnd(data[7], 8) > 0

NoSample ==
    [some |-> FALSE, mag_raw |-> <<0, 0, 0>>, mag |-> <<0, 0, 0>>,
     data_overrun |-> FALSE]

(* parse_sample_helper; data is 1-indexed, data[7] is the byte at offset 6 *)
ParseSampleHelper(data, sensitivity, adjust) ==
    IF Saturated(data) THEN NoSample
    ELSE LET mag_raw == << ReadI16(data[1], data[2]),
                           ReadI16(data[3], data[4]),
                           ReadI16(data[5], data[6]) >>
             mag == [i \in 1 .. 3 |-> Scalar(sensitivity) * adjust[i] * mag_raw[i]]
         IN [some |-> TRUE, mag_raw |-> mag_raw, mag |-> mag,
             data_overrun |-> FALSE]

\* SampleWithOverrun letting the DOR bit decide first: an overrun sample is
\* returned without the saturation check
SampleWithOverrun_OverrunFirst(status, data, sensitivity, adjust) ==
    IF DataOverrun(status)
    THEN LET mag_raw == << ReadI16(data[1], data[2]),
                           ReadI16(data[3], data[4]),
                           ReadI16(data[5], data[6]) >>
         IN [some |-> TRUE, mag_raw |-> mag_raw,
             mag |-> [i \in 1 .. 3 |-> Scalar(sensitivity) * adjust[i] * mag_raw[i]],
             data_overrun |-> TRUE]
    ELSE ParseSampleHelper(data, sensitivity, adjust)

(* read_sample after both reads: decode, then the DOR bit of buf1 *)
SampleWithOverrun(status, data, sensitivity, adjust) ==
    LET sample == ParseSampleHelper(data, sensitivity, adjust)
    IN IF sample.some /\ DataOverrun(status)
       THEN [sample EXCEPT !.data_overrun = TRUE]
       ELSE sample

----------------------------------------------------------------------------
(* Inputs *)

\* status bytes the chip may hold: the four DRDY/DOR combinations
St1Bytes == {0, 1, 2, 3}

\* data blocks the chip may hold (HXL, HXH, HYL, HYH, HZL, HZH, ST2):
\*   (100, 200, 300), (-100, 32767, -32768) and (-1, 256, 0), with bit 3 of
\*   ST2 clear, alone or among the other bits; two of them saturated
DataBlocks ==
    { <<100, 0, 200, 0, 44, 1, 0>>,
      <<156, 255, 255, 127, 0, 128, 16>>,
      <<255, 255, 0, 1, 0, 0, 247>>,
      <<100, 0, 200, 0, 44, 1, 8>>,
      <<255, 255, 0, 1, 0, 0, 255>> }

\* fuse-ROM contents (ASAX, ASAY, ASAZ)
AsaBlocks == { <<128, 255, 176>>, <<0, 127, 200>> }

----------------------------------------------------------------------------
(* The bus and the chip behind it *)

Op(kind, bytes, len, ok) == [kind |-> kind, bytes |-> bytes, len |-> len, ok |-> ok]

OpenOp(ok) == Op("open", <<>>, 0, ok)
WriteOp(bytes, ok) == Op("write", bytes, 0, ok)
ReadOp(len, ok) == Op("read", <<>>, len, ok)

\* a write of [reg] addresses a register, a write of [reg, value] also sets it
ChipWrite(c, bytes) ==
    IF Len(bytes) = 2 /\ bytes[1] = Cntl1
    THEN [c EXCEPT !.ptr = bytes[1], !.cntl1 = bytes[2]]
    ELSE [c EXCEPT !.ptr = bytes[1]]

\* the bytes a read of len bytes returns: the registers from the addressed one
ChipRead(c, len) ==
    CASE c.ptr = St1 /\ len = 1 -> <<c.st1>>
      [] c.ptr = Hxl /\ len = 7 -> c.data
      [] c.ptr = Asax /\ len = 3 -> c.asa
      [] OTHER -> [i \in 1 .. len |-> 0]

\* reading the data block through ST2 clears DRDY and DOR
ChipAfterRead(c, len) ==
    IF c.ptr = Hxl /\ len = 7 THEN [c EXCEPT !.st1 = BitAnd(c.st1, 252)] ELSE c

ContinuousMode(c) == BitAnd(c.cntl1, 15) \in {ContMeas1, ContMeas2}

----------------------------------------------------------------------------
(* Results *)

Pending == [tag |-> "none", err |-> "none", cause |-> 0, sample |-> NoSample]
OkResult(sample) == [tag |-> "Ok", err |-> "none", cause |-> 0, sample |-> sample]
I2cError(cause) == [tag |-> "Err", err |-> "I2c", cause |-> cause, sample |-> NoSample]
NotReady == [tag |-> "Err", err |-> "DataNotReady", cause |-> 0, sample |-> NoSample]
Panicked == [tag |-> "Panic", err |-> "none", cause |-> 0, sample |-> NoSample]

NoAk == [where |-> "absent", factory_adjust |-> <<0, 0, 0>>, sensitivity |-> "none"]

NoArgs == [sensitivity |-> "none", sample_rate |-> "none"]

Zeros(n) == [i \in 1 .. n |-> 0]

\* nothing recorded; st1_at_read is -1 while no data read has happened
NoHist ==
    [parse_set |-> FALSE, parse_data |-> Zeros(7), parse_sample |-> NoSample,
     read_between |-> FALSE, st1_at_read |-> -1]

Init ==
    /\ pc = "idle"
    /\ overflow_checks \in BOOLEAN
    /\ args = NoArgs
    /\ ak = NoAk
    /\ fa_buf = Zeros(3)
    /\ factory_adjust = Zeros(3)
    /\ buf1 = 0
    /\ buf = Zeros(7)
    /\ data_arg = Zeros(7)
    /\ log = <<>>
    /\ lastCall = "none"
    /\ prevCall = "none"
    /\ result = Pending
    /\ hist = NoHist
    /\ \E st1 \in St1Bytes, data \in DataBlocks, asa \in AsaBlocks :
          chip = [cntl1 |-> PowerDn, ptr |-> 0, st1 |-> st1, data |-> data,
                  asa |-> asa]

----------------------------------------------------------------------------
(* Ak8963::new *)

\* a failing operation inside new: the ? operator returns the error; the
\* struct, if it was built, is dropped
AbortNew(op) ==
    /\ log' = Append(log, op)
    /\ result' = I2cError(Len(log) + 1)
    /\ pc' = "idle"
    /\ ak' = NoAk
    /\ UNCHANGED <<overflow_checks, args, fa_buf, factory_adjust, buf1, buf, data_arg, chip,
                   hist>>

\* new is called; LinuxI2CDevice::new opens the device
New(sensitivity, sample_rate, ok) ==
    /\ pc = "idle"
    /\ lastCall' = "new"
    /\ prevCall' = lastCall
    /\ args' = [sensitivity |-> sensitivity, sample_rate |-> sample_rate]
    /\ log' = <<OpenOp(ok)>>
    /\ ak' = NoAk
    /\ fa_buf' = Zeros(3)
    /\ factory_adjust' = Zeros(3)
    /\ buf1' = 0
    /\ buf' = Zeros(7)
    /\ data_arg' = Zeros(7)
    /\ hist' = NoHist
    /\ IF ok THEN pc' = "rsa_powerdn1" /\ result' = Pending
             ELSE pc' = "idle" /\ result' = I2cError(1)
    /\ UNCHANGED <<overflow_checks, chip>>

\* a write of `bytes` inside new, at position `at`, going on to `next`
NewWrite(at, bytes, next, ok) ==
    /\ pc = at
    /\ IF ok
       THEN /\ log' = Append(log, WriteOp(bytes, TRUE))
            /\ chip' = ChipWrite(chip, bytes)
            /\ pc' = next
            /\ UNCHANGED <<overflow_checks, args, ak, fa_buf, factory_adjust,
                           buf1, buf, data_arg, result>>
       ELSE AbortNew(WriteOp(bytes, FALSE))
    /\ UNCHANGED <<lastCall, prevCall, hist>>


\* RsaPowerDn1 going on to the address write, the fuse-ROM write left out
RsaPowerDn1_SkipsFuseRom(ok) ==
    NewWrite("rsa_powerdn1", <<Cntl1, PowerDn>>, "rsa_asax", ok)

RsaPowerDn1(ok) == NewWrite("rsa_powerdn1", <<Cntl1, PowerDn>>, "rsa_fuserom", ok)

\* RsaFuseRom writing the power-down code instead of the fuse-ROM code
RsaFuseRom_PowerDn(ok) == NewWrite("rsa_fuserom", <<Cntl1, PowerDn>>, "rsa_asax", ok)

RsaFuseRom(ok) == NewWrite("rsa_fuserom", <<Cntl1, FuseRom>>, "rsa_asax", ok)

RsaWriteAsax(ok) == NewWrite("rsa_asax", <<Asax>>, "rsa_read", ok)

\* i2c_dev.read(&mut buf), then the array of the three adjustments
RsaRead(ok) ==
    /\ pc = "rsa_read"
    /\ IF ~ok THEN AbortNew(ReadOp(3, FALSE))
       ELSE LET bytes == ChipRead(chip, 3) IN
            /\ log' = Append(log, ReadOp(3, TRUE))
            /\ chip' = ChipAfterRead(chip, 3)
            /\ fa_buf' = bytes
            /\ IF AdjustPanics(bytes)
               THEN /\ pc' = "idle"
                    /\ result' = Panicked
                    /\ UNCHANGED factory_adjust
               ELSE /\ pc' = "rsa_powerdn2"
                    /\ factory_adjust' = FactoryAdjustOf(bytes)
                    /\ UNCHANGED result
            /\ UNCHANGED <<overflow_checks, args, ak, buf1, buf, data_arg>>
    /\ UNCHANGED <<lastCall, prevCall, hist>>

\* RsaPowerDn2 building the struct with a fixed sensitivity instead of the
\* argument
RsaPowerDn2_FixedSensitivity(ok) ==
    /\ pc = "rsa_powerdn2"
    /\ IF ~ok THEN AbortNew(WriteOp(<<Cntl1, PowerDn>>, FALSE))
       ELSE /\ log' = Append(log, WriteOp(<<Cntl1, PowerDn>>, TRUE))
            /\ chip' = ChipWrite(chip, <<Cntl1, PowerDn>>)
            /\ ak' = [where |-> "new", factory_adjust |-> factory_adjust,
                      sensitivity |-> "Opt14bit"]
            /\ pc' = "initialize"
            /\ UNCHANGED <<overflow_checks, args, fa_buf, factory_adjust, buf1,
                           buf, data_arg, result>>
    /\ UNCHANGED <<lastCall, prevCall, hist>>

\* the second power-down; on success read_sensitivity_adjustment returns and
\* new builds the struct
RsaPowerDn2(ok) ==
    /\ pc = "rsa_powerdn2"
    /\ IF ~ok THEN AbortNew(WriteOp(<<Cntl1, PowerDn>>, FALSE))
       ELSE /\ log' = Append(log, WriteOp(<<Cntl1, PowerDn>>, TRUE))
            /\ chip' = ChipWrite(chip, <<Cntl1, PowerDn>>)
            /\ ak' = [where |-> "new", factory_adjust |-> factory_adjust,
                      sensitivity |-> args.sensitivity]
            /\ pc' = "initialize"
            /\ UNCHANGED <<overflow_checks, args, fa_buf, factory_adjust, buf1,
                           buf, data_arg, result>>
    /\ UNCHANGED <<lastCall, prevCall, hist>>


\* Initialize without the ? on the write: the error is dropped
Initialize_IgnoresError(ok) ==
    /\ pc = "initialize"
    /\ LET bytes == <<Cntl1, Cntl1Byte(args.sensitivity, args.sample_rate)>> IN
       /\ log' = Append(log, WriteOp(bytes, ok))
       /\ chip' = IF ok THEN ChipWrite(chip, bytes) ELSE chip
    /\ ak' = [ak EXCEPT !.where = "caller"]
    /\ result' = OkResult(NoSample)
    /\ pc' = "ready"
    /\ UNCHANGED <<overflow_checks, args, fa_buf, factory_adjust, buf1, buf,
                   data_arg, lastCall, prevCall, hist>>

\* initialize: the mode byte is written; on success new returns Ok(ak)
Initialize(ok) ==
    /\ pc = "initialize"
    /\ LET cntl1_byte == Cntl1Byte(args.sensitivity, args.sample_rate) IN
       IF ~ok THEN AbortNew(WriteOp(<<Cntl1, cntl1_byte>>, FALSE))
       ELSE /\ log' = Append(log, WriteOp(<<Cntl1, cntl1_byte>>, TRUE))
            /\ chip' = ChipWrite(chip, <<Cntl1, cntl1_byte>>)
            /\ ak' = [ak EXCEPT !.where = "caller"]
            /\ result' = OkResult(NoSample)
            /\ pc' = "ready"
            /\ UNCHANGED <<overflow_checks, args, fa_buf, factory_adjust, buf1, buf, data_arg>>
    /\ UNCHANGED <<lastCall, prevCall, hist>>

----------------------------------------------------------------------------
(* Ak8963::read_sample *)


\* AbortRead resetting the controller's calibration to (1.0, 1.0, 1.0) on a
\* bus failure
AbortRead_ResetsCalibration(op) ==
    /\ log' = Append(log, op)
    /\ result' = I2cError(Len(log) + 1)
    /\ pc' = "ready"
    /\ ak' = [ak EXCEPT !.factory_adjust = <<256, 256, 256>>]
    /\ UNCHANGED <<overflow_checks, args, fa_buf, factory_adjust, buf1, buf,
                   data_arg, chip, lastCall, prevCall, hist>>

\* AbortRead retrying: the failure is logged and the call stays where it is
AbortRead_Retries(op) ==
    /\ log' = Append(log, op)
    /\ UNCHANGED <<pc, result, overflow_checks, args, ak, fa_buf, factory_adjust,
                   buf1, buf, data_arg, chip, lastCall, prevCall, hist>>

\* AbortRead reporting the bus failure as DataNotReady
AbortRead_NotReady(op) ==
    /\ log' = Append(log, op)
    /\ result' = NotReady
    /\ pc' = "ready"
    /\ UNCHANGED <<overflow_checks, args, ak, fa_buf, factory_adjust, buf1, buf,
                   data_arg, chip, lastCall, prevCall, hist>>

\* a failing operation inside read_sample: map_err and ? return I2c(e)
AbortRead(op) ==
    /\ log' = Append(log, op)
    /\ result' = I2cError(Len(log) + 1)
    /\ pc' = "ready"
    /\ UNCHANGED <<overflow_checks, args, ak, fa_buf, factory_adjust, buf1, buf, data_arg,
                   chip, lastCall, prevCall, hist>>

\* read_sample is called; the status register is addressed
RsWriteSt1(ok) ==
    /\ pc = "ready"
    /\ lastCall' = "read_sample"
    /\ prevCall' = lastCall
    /\ buf1' = 0
    /\ buf' = Zeros(7)
    /\ data_arg' = Zeros(7)
    /\ log' = <<WriteOp(<<St1>>, ok)>>
    /\ IF ok THEN /\ chip' = ChipWrite(chip, <<St1>>)
                  /\ pc' = "rs_st1_read"
                  /\ result' = Pending
             ELSE /\ pc' = "ready"
                  /\ result' = I2cError(1)
                  /\ UNCHANGED chip
    /\ hist' = [hist EXCEPT !.read_between = hist.parse_set, !.st1_at_read = -1]
    /\ UNCHANGED <<overflow_checks, args, ak, fa_buf, factory_adjust>>

\* the status byte is read into buf1, then the DRDY bit is checked
RsReadSt1(ok) ==
    /\ pc = "rs_st1_read"
    /\ IF ~ok THEN AbortRead(ReadOp(1, FALSE))
       ELSE LET status == ChipRead(chip, 1)[1] IN
            /\ log' = Append(log, ReadOp(1, TRUE))
            /\ chip' = ChipAfterRead(chip, 1)
            /\ buf1' = status
            /\ IF ~DataReady(status)
               THEN pc' = "ready" /\ result' = NotReady
               ELSE pc' = "rs_hxl_write" /\ UNCHANGED result
            /\ UNCHANGED <<overflow_checks, args, ak, fa_buf, factory_adjust, buf, data_arg,
                           lastCall, prevCall, hist>>

\* the data block is addressed
RsWriteHxl(ok) ==
    /\ pc = "rs_hxl_write"
    /\ IF ~ok THEN AbortRead(WriteOp(<<Hxl>>, FALSE))
       ELSE /\ log' = Append(log, WriteOp(<<Hxl>>, TRUE))
            /\ chip' = ChipWrite(chip, <<Hxl>>)
            /\ pc' = "rs_hxl_read"
            /\ UNCHANGED <<overflow_checks, args, ak, fa_buf, factory_adjust, buf1,
                           buf, data_arg, result, lastCall, prevCall, hist>>

\* RsReadHxl taking the DOR bit from the chip's status at the data read
\* instead of from buf1
RsReadHxl_LiveStatus(ok) ==
    /\ pc = "rs_hxl_read"
    /\ IF ~ok THEN AbortRead(ReadOp(7, FALSE))
       ELSE LET data == ChipRead(chip, 7) IN
            /\ log' = Append(log, ReadOp(7, TRUE))
            /\ chip' = ChipAfterRead(chip, 7)
            /\ buf' = data
            /\ result' = OkResult(SampleWithOverrun(chip.st1, data, ak.sensitivity,
                                                    ak.factory_adjust))
            /\ pc' = "ready"
            /\ hist' = [hist EXCEPT !.st1_at_read = chip.st1]
            /\ UNCHANGED <<overflow_checks, args, ak, fa_buf, factory_adjust, buf1,
                           data_arg, lastCall, prevCall>>

\* the data block is read into buf and decoded; the DOR bit of buf1 is applied
RsReadHxl(ok) ==
    /\ pc = "rs_hxl_read"
    /\ IF ~ok THEN AbortRead(ReadOp(7, FALSE))
       ELSE LET data == ChipRead(chip, 7) IN
            /\ log' = Append(log, ReadOp(7, TRUE))
            /\ chip' = ChipAfterRead(chip, 7)
            /\ buf' = data
            /\ result' = OkResult(SampleWithOverrun(buf1, data, ak.sensitivity,
                                                    ak.factory_adjust))
            /\ pc' = "ready"
            /\ hist' = [hist EXCEPT !.st1_at_read = chip.st1]
            /\ UNCHANGED <<overflow_checks, args, ak, fa_buf, factory_adjust, buf1,
                           data_arg, lastCall, prevCall>>

\* ParseSampleData applying the DOR bit of the status byte that the previous
\* read_sample left behind
ParseSampleData_StaleStatus(data) ==
    /\ pc = "ready"
    /\ lastCall' = "parse_sample_data"
    /\ prevCall' = lastCall
    /\ log' = <<>>
    /\ buf1' = 0
    /\ buf' = Zeros(7)
    /\ data_arg' = data
    /\ result' = OkResult(SampleWithOverrun(buf1, data, ak.sensitivity,
                                            ak.factory_adjust))
    /\ hist' = IF hist.parse_set
               THEN [hist EXCEPT !.st1_at_read = -1]
               ELSE [hist EXCEPT !.parse_set = TRUE, !.parse_data = data,
                                 !.parse_sample = result'.sample,
                                 !.st1_at_read = -1]
    /\ UNCHANGED <<pc, overflow_checks, args, ak, fa_buf, factory_adjust, chip>>

(* Ak8963::parse_sample_data *)
ParseSampleData(data) ==
    /\ pc = "ready"
    /\ lastCall' = "parse_sample_data"
    /\ prevCall' = lastCall
    /\ log' = <<>>
    /\ buf1' = 0
    /\ buf' = Zeros(7)
    /\ data_arg' = data
    /\ result' = OkResult(ParseSampleHelper(data, ak.sensitivity, ak.factory_adjust))
    /\ hist' = IF hist.parse_set
               THEN [hist EXCEPT !.st1_at_read = -1]
               ELSE [hist EXCEPT !.parse_set = TRUE, !.parse_data = data,
                                 !.parse_sample = result'.sample,
                                 !.st1_at_read = -1]
    /\ UNCHANGED <<pc, overflow_checks, args, ak, fa_buf, factory_adjust, chip>>

----------------------------------------------------------------------------
(* The chip, in a continuous measurement mode, stores a new measurement: DRDY
   is raised, and DOR too when the previous measurement was not read *)
ChipMeasure(data) ==
    /\ ContinuousMode(chip)
    /\ chip' = [chip EXCEPT
                  !.data = data,
                  !.st1 = BitOr(chip.st1, IF Bit(chip.st1, 0) = 1 THEN 3 ELSE 1)]
    /\ UNCHANGED <<pc, overflow_checks, args, ak, fa_buf, factory_adjust, buf1, buf, data_arg,
                   log, lastCall, prevCall, result, hist>>

----------------------------------------------------------------------------
Next ==
    \/ \E s \in Sensitivity, r \in SampleRate, ok \in BOOLEAN : New(s, r, ok)
    \/ \E ok \in BOOLEAN : RsaPowerDn1(ok)
    \/ \E ok \in BOOLEAN : RsaFuseRom(ok)
    \/ \E ok \in BOOLEAN : RsaWriteAsax(ok)
    \/ \E ok \in BOOLEAN : RsaRead(ok)
    \/ \E ok \in BOOLEAN : RsaPowerDn2(ok)
    \/ \E ok \in BOOLEAN : Initialize(ok)
    \/ \E ok \in BOOLEAN : RsWriteSt1(ok)
    \/ \E ok \in BOOLEAN : RsReadSt1(ok)
    \/ \E ok \in BOOLEAN : RsWriteHxl(ok)
    \/ \E ok \in BOOLEAN : RsReadHxl(ok)
    \/ \E data \in DataBlocks : ParseSampleData(data)
    \/ \E data \in DataBlocks : ChipMeasure(data)

Spec == Init /\ [][Next]_vars

----------------------------------------------------------------------------
(* The decoder on a wide range of blocks.  A controller has been constructed
   and the chip holds a block from SampleBlocks with DRDY raised; the caller
   either reads a sample or replays the same block through
   parse_sample_data, once. *)

SampleLo == {0, 1, 255}
SampleHi == {0, 127, 128, 255}
St2Bytes == {0, 8, 247, 255}

\* the product of the byte sets, and the block of X = 100, Y = 200, Z = 300
SampleBlocks ==
    { <<xl, xh, yl, yh, zl, zh, st2>> :
        xl \in SampleLo, xh \in SampleHi, yl \in SampleLo, yh \in SampleHi,
        zl \in {0, 255}, zh \in SampleHi, st2 \in St2Bytes }
    \cup { <<100, 0, 200, 0, 44, 1, 0>> }

\* fuse-ROM contents, with the one that gives the calibration (1.0, 1.0, 1.0)
SampleAsaBlocks == AsaBlocks \cup { <<128, 128, 128>> }

\* the bus operations of a construction that succeeds
NewLog(sensitivity, sample_rate) ==
    << OpenOp(TRUE),
       WriteOp(<<Cntl1, PowerDn>>, TRUE),
       WriteOp(<<Cntl1, FuseRom>>, TRUE),
       WriteOp(<<Asax>>, TRUE),
       ReadOp(3, TRUE),
       WriteOp(<<Cntl1, PowerDn>>, TRUE),
       WriteOp(<<Cntl1, Cntl1Byte(sensitivity, sample_rate)>>, TRUE) >>

\* the state in which new(sensitivity, sample_rate) has just returned Ok
Constructed(sensitivity, sample_rate, regs) ==
    /\ ~AdjustPanics(regs.asa)
    /\ pc = "ready"
    /\ args = [sensitivity |-> sensitivity, sample_rate |-> sample_rate]
    /\ ak = [where |-> "caller", factory_adjust |-> FactoryAdjustOf(regs.asa),
             sensitivity |-> sensitivity]
    /\ fa_buf = regs.asa
    /\ factory_adjust = FactoryAdjustOf(regs.asa)
    /\ buf1 = 0
    /\ buf = Zeros(7)
    /\ data_arg = Zeros(7)
    /\ log = NewLog(sensitivity, sample_rate)
    /\ lastCall = "new"
    /\ result = OkResult(NoSample)
    /\ hist = NoHist
    /\ chip = [regs EXCEPT !.cntl1 = Cntl1Byte(sensitivity, sample_rate),
                           !.ptr = Cntl1]

DecodeInit ==
    /\ overflow_checks \in BOOLEAN
    /\ prevCall = "none"
    /\ \E s \in Sensitivity, asa \in SampleAsaBlocks, st1 \in {1, 3},
          data \in SampleBlocks :
          Constructed(s, "Opt100Hz",
                      [cntl1 |-> PowerDn, ptr |-> 0, st1 |-> st1, data |-> data,
                       asa |-> asa])

DecodeNext ==
    \/ lastCall = "new" /\ ParseSampleData(chip.data)
    \/ lastCall = "new" /\ RsWriteSt1(TRUE)
    \/ RsReadSt1(TRUE)
    \/ RsWriteHxl(TRUE)
    \/ RsReadHxl(TRUE)

DecodeSpec == DecodeInit /\ [][DecodeNext]_vars

\* every state of Spec in which new has just returned is a Constructed state
NewReturnsConstructed ==
    (lastCall = "new" /\ pc = "ready") =>
        \E s \in Sensitivity, r \in SampleRate, regs \in {chip} :
            Constructed(s, r, [regs EXCEPT !.cntl1 = PowerDn, !.ptr = 0])

----------------------------------------------------------------------------
(* Properties *)

AllOk(ops) == \A i \in 1 .. Len(ops) : ops[i].ok

IsPrefix(a, b) == Len(a) <= Len(b) /\ \A i \in 1 .. Len(a) : a[i] = b[i]

\* bit k of byte b, by arithmetic
BitOf(b, k) == (b \div (2 ^ k)) % 2 = 1

\* the operations of a construction, by their bytes on the bus
ExpectedNewOps(mode) ==
    << [kind |-> "open", bytes |-> <<>>, len |-> 0, ok |-> TRUE],
       [kind |-> "write", bytes |-> <<10, 0>>, len |-> 0, ok |-> TRUE],
       [kind |-> "write", bytes |-> <<10, 15>>, len |-> 0, ok |-> TRUE],
       [kind |-> "write", bytes |-> <<16>>, len |-> 0, ok |-> TRUE],
       [kind |-> "read", bytes |-> <<>>, len |-> 3, ok |-> TRUE],
       [kind |-> "write", bytes |-> <<10, 0>>, len |-> 0, ok |-> TRUE],
       [kind |-> "write", bytes |-> <<10, mode>>, len |-> 0, ok |-> TRUE] >>

\* C1: while new runs with every bus operation succeeding, the operations
\* so far are an initial part of: open, write 0x00 to 0x0a, write 0x0f to
\* 0x0a, write address 0x10, read 3 bytes, write 0x00 to 0x0a, write the mode
\* byte to 0x0a; and when new has returned the controller, they are exactly
\* these seven.
C1_ConstructionOrder ==
    lastCall = "new" =>
        LET expected == ExpectedNewOps(Cntl1Byte(args.sensitivity, args.sample_rate))
        IN /\ AllOk(log) => IsPrefix(log, expected)
           /\ (result.tag = "Ok" \/ ak.where = "caller") => log = expected

C1_Witness ==
    /\ lastCall = "new"
    /\ result.tag = "Ok"
    /\ ak.where = "caller"
    /\ Len(log) = 7
    /\ AllOk(log)

\* C2: when a bus operation of new fails, it is the last operation of the
\* call, new has returned the error of that operation, and no controller
\* exists, neither with the caller nor inside new.
C2_ConstructionAborts ==
    lastCall = "new" =>
        \A i \in 1 .. Len(log) :
            ~log[i].ok =>
                /\ i = Len(log)
                /\ result = [tag |-> "Err", err |-> "I2c", cause |-> i,
                             sample |-> NoSample]
                /\ ak.where = "absent"
                /\ pc = "idle"

\* the mode write of initialize fails, after the struct was built
C2_Witness ==
    /\ lastCall = "new"
    /\ Len(log) = 7
    /\ ~log[7].ok
    /\ result.err = "I2c"

\* C3: a read_sample whose status read succeeded with bit 0 clear has
\* returned DataNotReady, and the status read is its last bus operation: the
\* data block was neither addressed nor read.
C3_NotReadyStops ==
    (lastCall = "read_sample" /\ Len(log) >= 2 /\ log[2].ok /\ buf1 % 2 = 0) =>
        /\ result = [tag |-> "Err", err |-> "DataNotReady", cause |-> 0,
                     sample |-> NoSample]
        /\ Len(log) = 2
        /\ pc = "ready"
        /\ buf = Zeros(7)

\* the status byte has DOR set and DRDY clear
C3_Witness ==
    /\ lastCall = "read_sample"
    /\ Len(log) = 2
    /\ log[2].ok
    /\ buf1 = 2
    /\ result.err = "DataNotReady"

\* the block the last call decoded, if it has decoded one
Decoded ==
    \/ lastCall = "parse_sample_data"
    \/ lastCall = "read_sample" /\ Len(log) = 4 /\ log[4].ok

DecodedBlock == IF lastCall = "parse_sample_data" THEN data_arg ELSE buf

\* C4: a call that decoded a block whose byte 6 has bit 3 set has returned
\* Ok(None) (parse_sample_data: None).
C4_SaturationIsNone ==
    (Decoded /\ BitOf(DecodedBlock[7], 3)) =>
        result.tag = "Ok" /\ ~result.sample.some

\* read_sample on a saturated block with all other ST2 bits set and a
\* non-zero reading, in 16-bit mode
C4_Witness ==
    /\ lastCall = "read_sample"
    /\ Decoded
    /\ buf[7] = 255
    /\ buf[2] = 128
    /\ ak.sensitivity = "Opt16bit"
    /\ ~result.sample.some

\* the signed 16-bit value of a low and a high byte
I16(lo, hi) == ((lo + 256 * hi + 32768) % 65536) - 32768

\* C5: a call that decoded a block whose byte 6 has bit 3 clear has returned
\* a sample whose raw vector is, per axis, the signed 16-bit little-endian
\* value of its byte pair, within -32768 .. 32767.
C5_RawIsLittleEndianI16 ==
    (Decoded /\ ~BitOf(DecodedBlock[7], 3)) =>
        /\ result.tag = "Ok"
        /\ result.sample.some
        /\ \A i \in 0 .. 2 :
              /\ result.sample.mag_raw[i + 1] =
                    I16(DecodedBlock[2 * i + 1], DecodedBlock[2 * i + 2])
              /\ result.sample.mag_raw[i + 1] \in -32768 .. 32767

\* x = 0x00ff = 255, y = 0x8001 = -32767, z = 0xffff = -1
C5_Witness ==
    /\ lastCall = "parse_sample_data"
    /\ data_arg = <<255, 0, 1, 128, 255, 255, 247>>
    /\ result.sample.mag_raw = <<255, -32767, -1>>

\* C6: once the calibration block has been read, the adjustment of each axis
\* is (b - 128)/256 + 1.0 for its calibration byte b, the difference being
\* signed (in units of 1/256: b - 128 + 256), and the computation completes.
C6_AdjustIsSignedOffset ==
    (lastCall = "new" /\ Len(log) >= 5 /\ log[5].ok) =>
        /\ result.tag # "Panic"
        /\ \A i \in 1 .. 3 : factory_adjust[i] = (fa_buf[i] - 128) + 256

\* C7: the seventh operation of a construction writes to register 0x0a a
\* byte whose bit 4 is set exactly for Opt16bit and whose low four bits are
\* 0x02 for Opt8Hz and 0x06 for Opt100Hz; Opt16bit with Opt100Hz gives 0x16,
\* Opt14bit with Opt8Hz gives 0x02; the byte is neither 0x00 nor 0x0f.
C7_ModeByte ==
    (lastCall = "new" /\ Len(log) = 7) =>
        LET m == log[7].bytes[2] IN
        /\ log[7].kind = "write"
        /\ Len(log[7].bytes) = 2
        /\ log[7].bytes[1] = 10
        /\ BitOf(m, 4) <=> (args.sensitivity = "Opt16bit")
        /\ m % 16 = (IF args.sample_rate = "Opt8Hz" THEN 2 ELSE 6)
        /\ (args.sensitivity = "Opt16bit" /\ args.sample_rate = "Opt100Hz") => m = 22
        /\ (args.sensitivity = "Opt14bit" /\ args.sample_rate = "Opt8Hz") => m = 2
        /\ m \notin {0, 15}

C7_Witness ==
    /\ lastCall = "new"
    /\ pc = "ready"
    /\ Len(log) = 7
    /\ log[7].bytes = <<10, 22>>
    /\ chip.cntl1 = 22

\* C8: a sample returned by read_sample has data_overrun set exactly when
\* bit 1 of the status byte read in that call is set; a sample returned by
\* parse_sample_data has data_overrun clear.
C8_OverrunFromStatus ==
    /\ (lastCall = "read_sample" /\ result.tag = "Ok" /\ result.sample.some) =>
          (result.sample.data_overrun <=> BitOf(buf1, 1))
    /\ (lastCall = "parse_sample_data" /\ result.sample.some) =>
          ~result.sample.data_overrun

C8_Witness ==
    /\ lastCall = "read_sample"
    /\ result.tag = "Ok"
    /\ result.sample.some
    /\ buf1 = 3
    /\ result.sample.data_overrun

\* C9: a read_sample call that has returned has returned exactly one of:
\* I2c, exactly when one of its bus operations failed; DataNotReady, exactly
\* when the status read succeeded with bit 0 clear; Ok(None), exactly when
\* all four operations succeeded, bit 0 was set and byte 6 bit 3 of the data
\* block was set; Ok(Some) in the remaining case.
C9_ReadSampleOutcomes ==
    (lastCall = "read_sample" /\ pc = "ready") =>
        LET failed == ~AllOk(log)
            statusRead == Len(log) >= 2 /\ log[2].ok
            notReady == statusRead /\ ~BitOf(buf1, 0)
            dataRead == Len(log) = 4 /\ log[4].ok
            saturated == dataRead /\ BitOf(buf[7], 3)
            isI2c == result.tag = "Err" /\ result.err = "I2c"
            isNotReady == result.tag = "Err" /\ result.err = "DataNotReady"
            isNone == result.tag = "Ok" /\ ~result.sample.some
            isSome == result.tag = "Ok" /\ result.sample.some
        IN /\ result.tag \in {"Ok", "Err"}
           /\ result.tag = "Err" => result.err \in {"I2c", "DataNotReady"}
           /\ isI2c <=> failed
           /\ isNotReady <=> notReady
           /\ isNone <=> (~failed /\ ~notReady /\ saturated)
           /\ isSome <=> (~failed /\ ~notReady /\ ~saturated)

\* the data read fails after the status byte showed DRDY
C9_Witness ==
    /\ lastCall = "read_sample"
    /\ pc = "ready"
    /\ Len(log) = 4
    /\ ~log[4].ok
    /\ buf1 % 2 = 1
    /\ result.err = "I2c"

\* C10: the first read_sample after a construction that succeeded, all of
\* whose bus operations succeed, returns Ok.
C10_FirstReadSucceeds ==
    (lastCall = "read_sample" /\ prevCall = "new" /\ pc = "ready" /\ AllOk(log)) =>
        result.tag = "Ok"

\* C11: a parse_sample_data call performs no bus operation and leaves the
\* controller's sensitivity and calibration vector as new set them; called
\* with the block of the first parse_sample_data call on the controller, it
\* returns the result that call returned (absence, or the same raw vector,
\* calibrated vector and overrun flag), whatever calls were made in between.
C11_ParseIsPure ==
    lastCall = "parse_sample_data" =>
        /\ log = <<>>
        /\ ak = [where |-> "caller", factory_adjust |-> factory_adjust,
                 sensitivity |-> args.sensitivity]
        /\ hist.parse_set
        /\ hist.parse_data = data_arg =>
              (result.tag = "Ok" /\ result.sample = hist.parse_sample)

\* the block of the first call is decoded again after a read_sample
C11_Witness ==
    /\ lastCall = "parse_sample_data"
    /\ prevCall = "read_sample"
    /\ hist.read_between
    /\ hist.parse_data = data_arg
    /\ result.sample.some

\* C12: a call that decoded a block with the saturation bit clear has
\* returned a sample whose calibrated value is, per axis,
\* scalar(mode) * calibration * raw, with scalar(Opt14bit) = 4912/8192 and
\* scalar(Opt16bit) = 4912/32768.  In the unit 4912/(32768*256) of mag and
\* the unit 1/256 of the calibration this is 4 * calibration * raw for
\* Opt14bit and calibration * raw for Opt16bit.  Raw (100, 200, 300) with
\* Opt16bit and calibration (1.0, 1.0, 1.0) gives (14.99, 29.98, 44.97), that
\* is (15.0, 30.0, 45.0) to within 0.05: |mag * 4912 - v * 8388608| <=
\* 8388608 / 20.
C12_CalibratedValue ==
    (Decoded /\ ~BitOf(DecodedBlock[7], 3)) =>
        /\ result.sample.some
        /\ \A i \in 1 .. 3 :
              result.sample.mag[i] =
                  (IF ak.sensitivity = "Opt14bit" THEN 4 ELSE 1)
                      * ak.factory_adjust[i] * result.sample.mag_raw[i]
        /\ ( /\ result.sample.mag_raw = <<100, 200, 300>>
             /\ ak.sensitivity = "Opt16bit"
             /\ ak.factory_adjust = <<256, 256, 256>> ) =>
              \A i \in 1 .. 3 :
                  LET d == result.sample.mag[i] * 4912 - (15 * i) * 8388608
                  IN d <= 419430 /\ -d <= 419430

\* the example of the claim, through read_sample
C12_Witness ==
    /\ lastCall = "read_sample"
    /\ Decoded
    /\ buf = <<100, 0, 200, 0, 44, 1, 0>>
    /\ ak.sensitivity = "Opt16bit"
    /\ ak.factory_adjust = <<256, 256, 256>>
    /\ result.sample.mag = <<25600, 51200, 76800>>

\* a step in which a read_sample call returns with all its bus operations
\* succeeded
ReadSampleReturns ==
    /\ lastCall' = "read_sample"
    /\ pc # "ready"
    /\ pc' = "ready"
    /\ AllOk(log')

\* C13 as stated: a read_sample call that returns with all its bus
\* operations succeeded while the chip's data block has bit 3 of byte 6 set
\* returns Ok(None), whatever bits 0 and 1 of the status byte are.
C13_SaturationFirst ==
    [][(ReadSampleReturns /\ BitOf(chip.data[7], 3)) =>
          (result'.tag = "Ok" /\ ~result'.sample.some)]_vars

\* C13, amended: the same, provided bit 0 (data-ready) of the status byte
\* read by the call is set; bit 1 (overrun) is free.
C13_SaturationBeforeOverrun ==
    [][(ReadSampleReturns /\ BitOf(chip.data[7], 3) /\ BitOf(buf1', 0)) =>
          (result'.tag = "Ok" /\ ~result'.sample.some)]_vars

\* a saturated block was read with DRDY and DOR both set
C13_Witness ==
    /\ lastCall = "read_sample"
    /\ pc = "ready"
    /\ Len(log) = 4
    /\ AllOk(log)
    /\ buf1 = 3
    /\ BitOf(buf[7], 3)
    /\ result.tag = "Ok"
    /\ ~result.sample.some

\* the operations of a read_sample, by their bytes on the bus
ExpectedReadOps ==
    << [kind |-> "write", bytes |-> <<2>>, len |-> 0],
       [kind |-> "read", bytes |-> <<>>, len |-> 1],
       [kind |-> "write", bytes |-> <<3>>, len |-> 0],
       [kind |-> "read", bytes |-> <<>>, len |-> 7] >>

\* C14: the bus operations of a read_sample call are an initial part of:
\* write address 0x02, read 1 byte, write address 0x03, read 7 bytes; only
\* the last of them can have failed, and then the call has returned; after
\* DataNotReady the call has made two operations; every read directly
\* follows the successful write of its address; none writes register 0x0a,
\* which still holds the mode byte of the construction.
C14_ReadSampleOrder ==
    lastCall = "read_sample" =>
        /\ Len(log) \in 1 .. 4
        /\ \A i \in 1 .. Len(log) :
              /\ [kind |-> log[i].kind, bytes |-> log[i].bytes, len |-> log[i].len]
                    = ExpectedReadOps[i]
              /\ i < Len(log) => log[i].ok
              /\ ~log[i].ok => pc = "ready"
              /\ log[i].kind = "read" =>
                    /\ i > 1
                    /\ log[i - 1].ok
                    /\ log[i - 1] = [kind |-> "write", len |-> 0, ok |-> TRUE,
                                     bytes |-> <<IF log[i].len = 1 THEN 2 ELSE 3>>]
              /\ ~(log[i].kind = "write" /\ log[i].bytes[1] = 10)
        /\ result.err = "DataNotReady" => (Len(log) = 2 /\ pc = "ready")
        /\ chip.cntl1 = (IF args.sensitivity = "Opt16bit" THEN 16 ELSE 0)
                          + (IF args.sample_rate = "Opt8Hz" THEN 2 ELSE 6)

\* the write of the data block's address fails and the call has returned
C14_Witness ==
    /\ lastCall = "read_sample"
    /\ Len(log) = 3
    /\ ~log[3].ok
    /\ pc = "ready"
    /\ result.err = "I2c"

\* C15: whenever the caller holds a controller, its sensitivity is Opt16bit
\* exactly when bit 4 of the byte last written to the control register is
\* set, and Opt14bit otherwise.
C15_SensitivityMatchesChip ==
    ak.where = "caller" =>
        /\ ak.sensitivity \in {"Opt14bit", "Opt16bit"}
        /\ (ak.sensitivity = "Opt16bit") <=> BitOf(chip.cntl1, 4)

\* a 16-bit controller after a read_sample and a parse_sample_data
C15_Witness ==
    /\ ak.where = "caller"
    /\ lastCall = "parse_sample_data"
    /\ prevCall = "read_sample"
    /\ ak.sensitivity = "Opt16bit"
    /\ chip.cntl1 = 18

\* the positions of the reads in the log
ReadsIn(ops) == { i \in 1 .. Len(ops) : ops[i].kind = "read" }

\* a write of a value to the control register 0x0a
IsCntl1Write(op) == op.kind = "write" /\ Len(op.bytes) = 2 /\ op.bytes[1] = 10

\* C16: when new is about to read the calibration block, the byte last
\* written to the control register is 0x0f; a construction reads at most once,
\* 3 bytes, directly after addressing 0x10, with the fuse-ROM write the last
\* control write before it and no continuous-measurement byte (low bits 0x02
\* or 0x06) written before it; a construction that built the controller has
\* read exactly once, successfully; the controller's calibration vector has
\* 3 elements; no later call addresses 0x10.
C16_CalibrationReadOnce ==
    /\ pc = "rsa_read" => chip.cntl1 = 15
    /\ lastCall = "new" =>
          /\ Cardinality(ReadsIn(log)) <= 1
          /\ \A i \in ReadsIn(log) :
                /\ log[i].len = 3
                /\ i > 2
                /\ log[i - 1] = [kind |-> "write", bytes |-> <<16>>, len |-> 0,
                                 ok |-> TRUE]
                /\ log[i - 2] = [kind |-> "write", bytes |-> <<10, 15>>, len |-> 0,
                                 ok |-> TRUE]
                /\ \A k \in 1 .. i - 1 :
                      IsCntl1Write(log[k]) => (log[k].bytes[2] % 16) \notin {2, 6}
          /\ (result.tag = "Ok" \/ ak.where # "absent") =>
                \E i \in ReadsIn(log) : log[i].ok
    /\ ak.where # "absent" => DOMAIN ak.factory_adjust = 1 .. 3
    /\ lastCall \in {"read_sample", "parse_sample_data"} =>
          \A i \in 1 .. Len(log) : log[i].bytes # <<16>> /\ log[i].len # 3

\* a construction has returned a controller calibrated from (128, 255, 176)
C16_Witness ==
    /\ lastCall = "new"
    /\ pc = "ready"
    /\ ReadsIn(log) = {5}
    /\ fa_buf = <<128, 255, 176>>
    /\ ak.factory_adjust = <<256, 383, 304>>

\* C17: once the caller holds the controller, no step changes its
\* sensitivity or its calibration vector (nor takes the controller away),
\* whatever the call and its outcome.
C17_ControllerImmutable ==
    [][ak.where = "caller" => ak' = ak]_vars

\* a read_sample has failed on the bus after an earlier read_sample, and the
\* controller holds what new gave it
C17_Witness ==
    /\ ak.where = "caller"
    /\ lastCall = "read_sample"
    /\ prevCall = "read_sample"
    /\ pc = "ready"
    /\ result.err = "I2c"
    /\ ak.sensitivity = "Opt14bit"
    /\ ak.factory_adjust = <<256, 383, 304>>

\* C18: a read_sample that read DRDY set and DOR clear in its status byte,
\* and then read an unsaturated data block while the chip's status had DOR
\* set (the chip stored a measurement over an unread one between the two
\* reads), has returned a sample with data_overrun false, decoded from the
\* block the chip held at the data read.
C18_OverrunBetweenReads ==
    ( /\ lastCall = "read_sample"
      /\ pc = "ready"
      /\ Len(log) = 4
      /\ AllOk(log)
      /\ ~BitOf(buf1, 1)
      /\ hist.st1_at_read >= 0
      /\ BitOf(hist.st1_at_read, 1)
      /\ ~BitOf(buf[7], 3) ) =>
        /\ result.tag = "Ok"
        /\ result.sample.some
        /\ ~result.sample.data_overrun
        /\ result.sample.mag_raw =
              << I16(buf[1], buf[2]), I16(buf[3], buf[4]), I16(buf[5], buf[6]) >>

\* status 0x01 was read, the chip then raised DOR, and the sample decoded
\* from the overwritten registers carries data_overrun = false
C18_Witness ==
    /\ lastCall = "read_sample"
    /\ pc = "ready"
    /\ Len(log) = 4
    /\ AllOk(log)
    /\ buf1 = 1
    /\ hist.st1_at_read = 3
    /\ result.sample.some
    /\ ~result.sample.data_overrun
    /\ result.sample.mag_raw = <<-100, 32767, -32768>>

====
